---- MODULE Spec2Model ----
(***************************************************************************)
(* A model of model/rpn_function.py: the AnchorsGenerator (template cache, *)
(* grid cache, forward) and the RegionProposalNetwork (target assignment,  *)
(* proposal filtering, forward).                                           *)
(*                                                                         *)
(* Tensors are modelled as sequences of integer values.  A tensor that the *)
(* code can tell apart by identity is a record [id, boxes]; ids are        *)
(* allocated per forward call.  Aspect ratios are rationals <<n, d>> whose  *)
(* numerator and denominator are perfect squares, so that torch.sqrt is    *)
(* exact.  IoU values and thresholds are in tenths, scores in thousandths. *)
(***************************************************************************)
EXTENDS Integers, Sequences, FiniteSets, TLC

VARIABLES
  constructed,    \* AnchorsGenerator.__init__ returned (its assertion held)
  init_args,      \* the arguments of the __init__ call that is followed (<<>>: none)
  init_pc,        \* __init__: "none", "call", "returned" or "raised"
  sizes,          \* self.sizes
  aspect_ratios,  \* self.aspect_ratios
  cell_anchors,   \* self.cell_anchors (None, or the templates of every level)
  _cache,         \* self._cache: key -> list of per-level anchor tensors
  pc,             \* position of each forward call of the generator
  loc,            \* the locals of each forward call of the generator
  ret,            \* what the most recently completed forward call returned
  ncalls,         \* number of forward calls begun
  last_set,       \* arguments of the most recent set_cell_anchors call
  interleaved,    \* the callers whose forward call has had another in flight
  a_anchors,      \* assign_targets_to_anchors: anchors per image (shape[0])
  a_targets,      \* assign_targets_to_anchors: per image, targets["boxes"]
  a_iou,          \* per image, the IoU matrix of (gt_boxes, anchors), in tenths
  a_next,         \* index of the next image of the loop (0: not called)
  matched_idxs,   \* per processed image, the matcher's result (<<>>: not invoked)
  labels,         \* the list labels
  matched_gt_boxes, \* the list matched_gt_boxes
  matcher_calls,  \* number of invocations of self.proposal_matcher
  training,       \* self.training of the RegionProposalNetwork
  score_thresh,   \* self.score_thresh, in thousandths
  f_pc,           \* position of filter_proposals
  num_anchors_per_level, \* filter_proposals: anchors of every level
  proposals,      \* filter_proposals: per image, the decoded boxes
  objectness,     \* filter_proposals: per image, the logits, in thousandths
  selected,       \* per image, the proposals the per-level top-n kept
  final,          \* final_boxes and final_scores, per processed image
  refiltered,     \* a second filter_proposals over the output of one image
  \* RegionProposalNetwork.forward, one call
  r_pc,           \* "idle", "call", "assign", "returned" or "raised"
  targets_given,  \* targets is not None
  r_boxes,        \* the boxes of the returned pair
  losses,         \* the keys of the returned losses dict
  error,          \* the exception the call raised, "" if none
  loss_terms,     \* compute_loss: the sampled indices, box_loss and alpha
  \* RPNHead outputs and concat_box_prediction_layers, one call
  h_pc,           \* "idle", "counts", "loop", "cat" or "done"
  h_in,           \* batch size, feature-map shapes, image size, num_anchors
  h_flat,         \* box_cls_flattened and box_regression_flattened
  h_out           \* the returned box_cls and box_regression

gen_vars == <<constructed, init_args, init_pc, sizes, aspect_ratios, cell_anchors, _cache, pc, loc,
              ret, ncalls, last_set, interleaved>>

asg_vars == <<a_anchors, a_targets, a_iou, a_next, matched_idxs, labels,
              matched_gt_boxes, matcher_calls>>

flt_vars == <<training, score_thresh, f_pc, num_anchors_per_level, proposals,
              objectness, selected, final, refiltered>>

rpn_vars == <<r_pc, targets_given, r_boxes, losses, error, loss_terms>>

head_vars == <<h_pc, h_in, h_flat, h_out>>

not_gen_vars == <<asg_vars, flt_vars, rpn_vars, head_vars>>

not_asg_vars == <<gen_vars, flt_vars, rpn_vars, head_vars>>

not_flt_vars == <<gen_vars, asg_vars, rpn_vars, head_vars>>

vars == <<gen_vars, asg_vars, flt_vars, rpn_vars, head_vars>>

----------------------------------------------------------------------------
(* Bounds of the model                                                      *)

MaxCalls == 2       \* forward calls in one behaviour
MaxBatch == 2       \* images in one batch
MaxAnchors == 2     \* anchors per image, in target assignment
MaxCells == 4       \* cells of the IoU matrices of one batch, together
MaxProposals == 3   \* proposals of one batch, together, in filter_proposals
MaxLevels == 2      \* pyramid levels in filter_proposals
MaxSlots == 6       \* proposals times levels of one batch in filter_proposals

Procs == {1, 2}     \* callers of AnchorsGenerator.forward

Dtypes == {"float32", "float16"}
Devices == {"cpu", "cuda"}

\* Arguments of AnchorsGenerator.__init__: flat tuples or per-level tuples.
Flat(s) == [nested |-> FALSE, flat |-> s, levels |-> <<>>]
Nested(s) == [nested |-> TRUE, flat |-> <<>>, levels |-> s]

SizesArgs ==
  { Flat(<<4>>), Flat(<<2, 4>>), Nested(<< <<4>> >>), Nested(<< <<2>>, <<4>> >>),
    Nested(<< <<2, 4>> >>) }

AspectRatioArgs ==
  { Flat(<< <<1, 1>> >>), Flat(<< <<1, 4>>, <<1, 1>> >>),
    Nested(<< <<  <<1, 1>>  >> >>),
    Nested(<< << <<1, 1>> >>, << <<1, 1>>, <<4, 1>> >> >>) }

\* Feature-map shapes (height, width) of one call, one per feature map.
FeatureShapes ==
  { << <<1, 1>> >>, << <<1, 2>> >>, << <<2, 2>> >>,
    << <<2, 2>>, <<1, 1>> >>, << <<2, 1>>, <<1, 2>> >> }

\* Padded image sizes (height, width).
ImageSizes == { <<8, 8>>, <<8, 12>> }

----------------------------------------------------------------------------
(* Helpers                                                                  *)

Min(a, b) == IF a <= b THEN a ELSE b

RECURSIVE SumSeq(_)
SumSeq(s) == IF s = <<>> THEN 0 ELSE Head(s) + SumSeq(Tail(s))

RECURSIVE Concat(_)
Concat(ss) == IF ss = <<>> THEN <<>> ELSE Head(ss) \o Concat(Tail(ss))

\* torch.sqrt on a perfect square
ISqrt(n) == CHOOSE k \in 0..n : k * k = n

\* Tensor.round() of the non-negative rational n / d: round half to even
RoundHalfEven(n, d) ==
  LET q == n \div d
      r == n % d
  IN  IF 2 * r < d THEN q
      ELSE IF 2 * r > d THEN q + 1
      ELSE IF q % 2 = 0 THEN q ELSE q + 1

----------------------------------------------------------------------------
(* AnchorsGenerator                                                         *)

\* __init__: flat arguments are expanded to one entry per level
InitSizes(a) ==
  IF a.nested THEN a.levels ELSE [i \in 1..Len(a.flat) |-> <<a.flat[i]>>]

InitAspectRatios(a, szs) ==
  IF a.nested THEN a.levels ELSE [i \in 1..Len(szs) |-> a.flat]

InitAssertionSkipped(szs, ars) == TRUE

\* assert len(sizes) == len(aspect_ratios)
InitAssertion(szs, ars) == Len(szs) = Len(ars)

generate_anchors_paired(scales, ratios) ==
  [i \in 1..Min(Len(ratios), Len(scales)) |->
     LET hn == ISqrt(ratios[i][1])
         hd == ISqrt(ratios[i][2])
         w2 == RoundHalfEven(hd * scales[i], 2 * hn)
         h2 == RoundHalfEven(hn * scales[i], 2 * hd)
     IN  << -w2, -h2, w2, h2 >>]

\* generate_anchors: the zero-centred templates of one level, aspect ratio
\* outer and scale inner; each coordinate is +-(w/2) or +-(h/2), rounded.
generate_anchors(scales, ratios) ==
  [i \in 1..(Len(ratios) * Len(scales)) |->
     LET r  == ratios[((i - 1) \div Len(scales)) + 1]
         s  == scales[((i - 1) % Len(scales)) + 1]
         hn == ISqrt(r[1])
         hd == ISqrt(r[2])
         w2 == RoundHalfEven(hd * s, 2 * hn)   \* (1 / h_ratio) * s / 2
         h2 == RoundHalfEven(hn * s, 2 * hd)   \* h_ratio * s / 2
     IN  << -w2, -h2, w2, h2 >>]

NoCellAnchors == [set |-> FALSE, dtype |-> "", device |-> "", tpl |-> <<>>]

\* the templates of every level, as computed for (dtype, device)
ComputeCellAnchors(szs, ars, dtype, device) ==
  [set |-> TRUE, dtype |-> dtype, device |-> device,
   tpl |-> [l \in 1..Min(Len(szs), Len(ars)) |-> generate_anchors(szs[l], ars[l])]]

\* set_cell_anchors: the cached templates are kept when their device is the
\* requested one; otherwise they are generated for (dtype, device).
set_cell_anchors(cell, szs, ars, dtype, device) ==
  IF cell.set /\ cell.device = device
  THEN cell
  ELSE ComputeCellAnchors(szs, ars, dtype, device)

\* num_anchors_per_location
num_anchors_per_location(szs, ars) ==
  [l \in 1..Min(Len(szs), Len(ars)) |-> Len(szs[l]) * Len(ars[l])]

\* strides of forward: image_size // grid size, per feature map
Strides(image_size, grid_sizes) ==
  [l \in 1..Len(grid_sizes) |->
     << image_size[1] \div grid_sizes[l][1], image_size[2] \div grid_sizes[l][2] >>]

\* torch.arange(0, n) * step
Arange(n, step) == [i \in 1..n |-> (i - 1) * step]

\* torch.meshgrid(ys, xs), first and second result, then reshape(-1)
MeshgridFirst(ys, xs) == Concat([i \in 1..Len(ys) |-> [j \in 1..Len(xs) |-> ys[i]]])

MeshgridSecond(ys, xs) == Concat([i \in 1..Len(ys) |-> [j \in 1..Len(xs) |-> xs[j]]])

\* torch.stack([shift_x, shift_y, shift_x, shift_y], dim=1)
Shifts(size, stride) ==
  LET shifts_x == Arange(size[2], stride[2])
      shifts_y == Arange(size[1], stride[1])
      shift_y  == MeshgridFirst(shifts_y, shifts_x)
      shift_x  == MeshgridSecond(shifts_y, shifts_x)
  IN  [p \in 1..Len(shift_x) |-> <<shift_x[p], shift_y[p], shift_x[p], shift_y[p]>>]

LevelAnchorsColumnMajor(size, stride, base) ==
  LET shifts == Shifts(<<size[2], size[1]>>, <<stride[2], stride[1]>>)
  IN  Concat([p \in 1..Len(shifts) |->
                [t \in 1..Len(base) |->
                   << base[t][1] + shifts[p][2], base[t][2] + shifts[p][1],
                      base[t][3] + shifts[p][2], base[t][4] + shifts[p][1] >>]])

\* grid_anchors, one level: shifts.view(-1, 1, 4) + base_anchors.view(1, -1, 4)
\* and reshape(-1, 4)
LevelAnchors(size, stride, base) ==
  LET shifts == Shifts(size, stride)
  IN  Concat([p \in 1..Len(shifts) |->
                [t \in 1..Len(base) |->
                   << base[t][1] + shifts[p][1], base[t][2] + shifts[p][2],
                      base[t][3] + shifts[p][3], base[t][4] + shifts[p][4] >>]])

\* grid_anchors: zip(grid_sizes, strides, cell_anchors) stops at the shortest;
\* every level's tensor is a new object (ids serial, first + 1 ..).
grid_anchors(grid_sizes, strides, cell, serial, first) ==
  [l \in 1..Min(Len(grid_sizes), Min(Len(strides), Len(cell.tpl))) |->
     [id |-> <<serial, first + l>>,
      boxes |-> LevelAnchors(grid_sizes[l], strides[l], cell.tpl[l])]]

\* key = str(grid_sizes) + str(strides); the strides are tensors, whose text
\* names their device.
CacheKey(grid_sizes, strides, device) == <<grid_sizes, strides, device>>

EmptyCache == <<>>

CachePut(c, key, val) ==
  [k \in (DOMAIN c) \cup {key} |-> IF k = key THEN val ELSE c[k]]

CacheKept(c) == c

\* self._cache.clear()
CacheClear(c) == EmptyCache

\* the locals of a forward call
NoLocals ==
  [serial |-> 0, grid_sizes |-> <<>>, strides |-> <<>>, dtype |-> "",
   device |-> "", batch |-> 0, alloc |-> 0, grid_runs |-> 0,
   over |-> <<>>, per_image |-> <<>>, out |-> <<>>]

NoReturn == [done |-> FALSE, by |-> 0, call |-> NoLocals]

AnchorsInImageRebuilt(over, i, serial, first) ==
  [l \in 1..Len(over) |->
     [id |-> <<serial, first + (i - 1) * Len(over) + l>>, boxes |-> over[l].boxes]]

\* the inner loop of forward: the list of one image holds the per-level
\* tensors themselves
AnchorsInImage(over, i, serial, first) == over

\* torch.cat of one image's per-level tensors: a new tensor
CatAnchors(per_level, id) ==
  [id |-> id, boxes |-> Concat([l \in 1..Len(per_level) |-> per_level[l].boxes])]

----------------------------------------------------------------------------
(* Construction                                                             *)

GenInit ==
  \E sa \in SizesArgs, aa \in AspectRatioArgs :
    LET szs == InitSizes(sa)
        ars == InitAspectRatios(aa, szs)
    IN  /\ init_args = <<>>
        /\ init_pc = IF InitAssertion(szs, ars) THEN "returned" ELSE "raised"
        /\ constructed = InitAssertion(szs, ars)
        /\ sizes = IF InitAssertion(szs, ars) THEN szs ELSE <<>>
        /\ aspect_ratios = IF InitAssertion(szs, ars) THEN ars ELSE <<>>
        /\ cell_anchors = NoCellAnchors
        /\ _cache = EmptyCache
        /\ pc = [p \in Procs |-> "idle"]
        /\ loc = [p \in Procs |-> NoLocals]
        /\ ret = NoReturn
        /\ ncalls = 0
        /\ last_set = <<"", "">>
  /\ interleaved = {}

\* no generator in this behaviour
GenIdle ==
  /\ constructed = FALSE
  /\ init_args = <<>>
  /\ init_pc = "none"
  /\ sizes = <<>>
  /\ aspect_ratios = <<>>
  /\ cell_anchors = NoCellAnchors
  /\ _cache = EmptyCache
  /\ pc = [p \in Procs |-> "idle"]
  /\ loc = [p \in Procs |-> NoLocals]
  /\ ret = NoReturn
  /\ ncalls = 0
  /\ last_set = <<"", "">>
  /\ interleaved = {}

----------------------------------------------------------------------------
(* AnchorsGenerator.__init__ as an operation                                *)

\* the non-empty tuples over S of at most n elements
Tuples(S, n) == UNION {[1..k -> S] : k \in 1..n}

\* the arguments of __init__: flat tuples, or one tuple of one size or one
\* ratio for each of 1..MaxLevels levels
CtorSizesArgs ==
  {Flat(t) : t \in Tuples({2, 4}, MaxLevels)}
    \cup {Nested(t) : t \in Tuples(Tuples({2, 4}, 1), MaxLevels)}

CtorAspectRatioArgs ==
  {Flat(t) : t \in Tuples({<<1, 1>>, <<1, 4>>}, MaxLevels)}
    \cup {Nested(t) : t \in Tuples(Tuples({<<1, 1>>, <<1, 4>>}, 1), MaxLevels)}

\* a call of __init__ is about to run
CtorInit ==
  /\ init_args \in CtorSizesArgs \X CtorAspectRatioArgs
  /\ init_pc = "call"
  /\ constructed = FALSE
  /\ sizes = <<>>
  /\ aspect_ratios = <<>>
  /\ cell_anchors = NoCellAnchors
  /\ _cache = EmptyCache
  /\ pc = [p \in Procs |-> "idle"]
  /\ loc = [p \in Procs |-> NoLocals]
  /\ ret = NoReturn
  /\ ncalls = 0
  /\ last_set = <<"", "">>
  /\ interleaved = {}

\* __init__, its assertion holding: the attributes are set
CtorReturns ==
  /\ init_pc = "call"
  /\ LET szs == InitSizes(init_args[1])
         ars == InitAspectRatios(init_args[2], szs)
     IN  /\ InitAssertion(szs, ars)
         /\ sizes' = szs
         /\ aspect_ratios' = ars
  /\ cell_anchors' = NoCellAnchors
  /\ _cache' = EmptyCache
  /\ constructed' = TRUE
  /\ init_pc' = "returned"
  /\ UNCHANGED <<init_args, pc, loc, ret, ncalls, last_set, interleaved>>
  /\ UNCHANGED not_gen_vars

\* __init__, its assertion failing: AssertionError, no attribute is set
CtorRaises ==
  /\ init_pc = "call"
  /\ LET szs == InitSizes(init_args[1])
         ars == InitAspectRatios(init_args[2], szs)
     IN  ~InitAssertion(szs, ars)
  /\ init_pc' = "raised"
  /\ UNCHANGED <<constructed, init_args, sizes, aspect_ratios, cell_anchors, _cache,
                 pc, loc, ret, ncalls, last_set, interleaved>>
  /\ UNCHANGED not_gen_vars

CtorNext == CtorReturns \/ CtorRaises

----------------------------------------------------------------------------
(* Operations of the generator                                              *)

\* the callers with a forward call under way
InFlight == {q \in Procs : pc[q] \notin {"idle", "raised"}}

\* a direct call of set_cell_anchors(dtype, device)
SetCellAnchors(dtype, device) ==
  /\ UNCHANGED not_gen_vars
  /\ constructed
  /\ \A p \in Procs : pc[p] = "idle"
  /\ cell_anchors' = set_cell_anchors(cell_anchors, sizes, aspect_ratios, dtype, device)
  /\ last_set' = <<dtype, device>>
  /\ UNCHANGED <<interleaved, constructed, init_args, init_pc, sizes, aspect_ratios, _cache, pc, loc, ret, ncalls>>

\* forward, up to and including self.set_cell_anchors(dtype, device)
ForwardBegin(p, grid_sizes, image_size, batch, dtype, device) ==
  /\ UNCHANGED not_gen_vars
  /\ constructed
  /\ pc[p] = "idle"
  /\ ncalls < MaxCalls
  /\ ncalls' = ncalls + 1
  /\ cell_anchors' = set_cell_anchors(cell_anchors, sizes, aspect_ratios, dtype, device)
  /\ last_set' = <<dtype, device>>
  /\ loc' = [loc EXCEPT ![p] =
              [NoLocals EXCEPT !.serial = ncalls + 1,
                               !.grid_sizes = grid_sizes,
                               !.strides = Strides(image_size, grid_sizes),
                               !.dtype = dtype, !.device = device,
                               !.batch = batch]]
  /\ pc' = [pc EXCEPT ![p] = "cached"]
  /\ ret' = NoReturn
  /\ interleaved' = IF InFlight = {} THEN interleaved \ {p}
                                     ELSE interleaved \cup InFlight \cup {p}
  /\ UNCHANGED <<constructed, init_args, init_pc, sizes, aspect_ratios, _cache>>

\* cached_grid_anchors(grid_sizes, strides)
CachedGridAnchors(p) ==
  /\ UNCHANGED not_gen_vars
  /\ pc[p] = "cached"
  /\ LET l   == loc[p]
         key == CacheKey(l.grid_sizes, l.strides, l.device)
     IN  IF key \in DOMAIN _cache
         THEN /\ loc' = [loc EXCEPT ![p].over = _cache[key]]
              /\ UNCHANGED _cache
         ELSE LET anchors == grid_anchors(l.grid_sizes, l.strides, cell_anchors,
                                          l.serial, l.alloc)
              IN  /\ _cache' = CachePut(_cache, key, anchors)
                  /\ loc' = [loc EXCEPT ![p].over = anchors,
                                        ![p].alloc = l.alloc + Len(anchors),
                                        ![p].grid_runs = l.grid_runs + 1]
  /\ pc' = [pc EXCEPT ![p] = "loop"]
  /\ UNCHANGED <<interleaved, constructed, init_args, init_pc, sizes, aspect_ratios, cell_anchors, ret, ncalls, last_set>>

\* the loop over image_list.image_sizes: one list of tensors per image
ForwardLoop(p) ==
  /\ UNCHANGED not_gen_vars
  /\ pc[p] = "loop"
  /\ LET l == loc[p]
     IN  loc' = [loc EXCEPT
                   ![p].per_image =
                      [i \in 1..l.batch |-> AnchorsInImage(l.over, i, l.serial, l.alloc)],
                   ![p].alloc = l.alloc + l.batch * Len(l.over)]
  /\ pc' = [pc EXCEPT ![p] = "cat"]
  /\ UNCHANGED <<interleaved, constructed, init_args, init_pc, sizes, aspect_ratios, cell_anchors, _cache, ret,
                 ncalls, last_set>>

\* anchors = [torch.cat(anchors_per_image) for anchors_per_image in anchors]
ForwardCat(p) ==
  /\ UNCHANGED not_gen_vars
  /\ pc[p] = "cat"
  /\ LET l == loc[p]
     IN  loc' = [loc EXCEPT
                   ![p].out = [i \in 1..l.batch |->
                                 CatAnchors(l.per_image[i], <<l.serial, l.alloc + i>>)],
                   ![p].alloc = l.alloc + l.batch]
  /\ pc' = [pc EXCEPT ![p] = "clear"]
  /\ UNCHANGED <<interleaved, constructed, init_args, init_pc, sizes, aspect_ratios, cell_anchors, _cache, ret,
                 ncalls, last_set>>

\* self._cache.clear(); return anchors
ForwardReturn(p) ==
  /\ UNCHANGED not_gen_vars
  /\ pc[p] = "clear"
  /\ _cache' = CacheClear(_cache)
  /\ ret' = [done |-> TRUE, by |-> p, call |-> loc[p]]
  /\ loc' = [loc EXCEPT ![p] = NoLocals]
  /\ pc' = [pc EXCEPT ![p] = "idle"]
  /\ UNCHANGED <<interleaved, constructed, init_args, init_pc, sizes, aspect_ratios, cell_anchors, ncalls, last_set>>

\* one forward call at a time
GenNext ==
  \/ \E dtype \in Dtypes, device \in Devices : SetCellAnchors(dtype, device)
  \/ \E p \in Procs, grid_sizes \in FeatureShapes, image_size \in ImageSizes,
        batch \in 1..MaxBatch, dtype \in Dtypes, device \in Devices :
       /\ \A q \in Procs : pc[q] = "idle"
       /\ ForwardBegin(p, grid_sizes, image_size, batch, dtype, device)
  \/ \E p \in Procs : CachedGridAnchors(p)
  \/ \E p \in Procs : ForwardLoop(p)
  \/ \E p \in Procs : ForwardCat(p)
  \/ \E p \in Procs : ForwardReturn(p)

----------------------------------------------------------------------------
(* forward calls of the generator that interleave                           *)

\* the feature maps and the image size of the interleaved calls
ConcFeatureShapes == { << <<1, 1>> >>, << <<1, 2>> >> }

ConcImageSize == <<8, 8>>

CacheHasAlways(c, key) == TRUE

\* key in self._cache
CacheHas(c, key) == key \in DOMAIN c

\* cached_grid_anchors: if key in self._cache
CacheTest(p) ==
  /\ UNCHANGED not_gen_vars
  /\ pc[p] = "cached"
  /\ pc' = [pc EXCEPT ![p] =
              IF CacheHas(_cache, CacheKey(loc[p].grid_sizes, loc[p].strides, loc[p].device))
              THEN "hit" ELSE "miss"]
  /\ UNCHANGED <<interleaved, constructed, init_args, init_pc, sizes, aspect_ratios, cell_anchors, _cache,
                 loc, ret, ncalls, last_set>>

\* cached_grid_anchors: return self._cache[key], a KeyError when the key
\* is no longer there
CacheRead(p) ==
  /\ UNCHANGED not_gen_vars
  /\ pc[p] = "hit"
  /\ LET key == CacheKey(loc[p].grid_sizes, loc[p].strides, loc[p].device)
     IN  IF key \in DOMAIN _cache
         THEN /\ loc' = [loc EXCEPT ![p].over = _cache[key]]
              /\ pc' = [pc EXCEPT ![p] = "loop"]
         ELSE /\ pc' = [pc EXCEPT ![p] = "raised"]
              /\ UNCHANGED loc
  /\ UNCHANGED <<interleaved, constructed, init_args, init_pc, sizes, aspect_ratios, cell_anchors, _cache,
                 ret, ncalls, last_set>>

\* cached_grid_anchors: anchors = self.grid_anchors(...); self._cache[key] = anchors
CacheFill(p) ==
  /\ UNCHANGED not_gen_vars
  /\ pc[p] = "miss"
  /\ LET l       == loc[p]
         key     == CacheKey(l.grid_sizes, l.strides, l.device)
         anchors == grid_anchors(l.grid_sizes, l.strides, cell_anchors, l.serial, l.alloc)
     IN  /\ _cache' = CachePut(_cache, key, anchors)
         /\ loc' = [loc EXCEPT ![p].over = anchors,
                               ![p].alloc = l.alloc + Len(anchors),
                               ![p].grid_runs = l.grid_runs + 1]
  /\ pc' = [pc EXCEPT ![p] = "loop"]
  /\ UNCHANGED <<interleaved, constructed, init_args, init_pc, sizes, aspect_ratios, cell_anchors, ret,
                 ncalls, last_set>>

\* forward calls by the callers of Procs, no caller waiting for another
ConcNext ==
  \/ \E p \in Procs, grid_sizes \in ConcFeatureShapes, batch \in 1..MaxBatch :
       ForwardBegin(p, grid_sizes, ConcImageSize, batch, "float32", "cpu")
  \/ \E p \in Procs : CacheTest(p)
  \/ \E p \in Procs : CacheRead(p)
  \/ \E p \in Procs : CacheFill(p)
  \/ \E p \in Procs : ForwardLoop(p)
  \/ \E p \in Procs : ForwardCat(p)
  \/ \E p \in Procs : ForwardReturn(p)

----------------------------------------------------------------------------
(* RegionProposalNetwork: configuration                                     *)

fg_iou_thresh == 7          \* tenths: IoU from which an anchor is positive
bg_iou_thresh == 3          \* tenths: IoU below which an anchor is background

no_low_quality_matches == FALSE

\* Matcher(fg_iou_thresh, bg_iou_thresh, allow_low_quality_matches=True)
allow_low_quality_matches == TRUE

BELOW_LOW_THRESHOLD == -1
BETWEEN_THRESHOLDS == -2

\* IoU values, in tenths: below the low threshold, between the two, above
IouValues == {0, 5, 8}

\* the ground-truth boxes of an image with n boxes
GtBoxes(n) == [g \in 1..n |-> <<g, g, g + 4, g + 6>>]

ZeroBox == <<0, 0, 0, 0>>

----------------------------------------------------------------------------
(* The matcher (det_utils.Matcher), from its specification                  *)

SetMax(S) == CHOOSE m \in S : \A x \in S : x <= m

\* the best IoU of anchor a over the ground-truth rows
ColMax(iou, a) == SetMax({iou[g][a] : g \in 1..Len(iou)})

\* the best IoU of ground-truth row g over the anchors
RowMax(iou, g) == SetMax({iou[g][a] : a \in 1..Len(iou[g])})

\* the outcomes of the threshold rule for anchor a: a sentinel, or the index
\* (from 0) of a ground-truth row of maximal IoU
ThresholdMatches(iou, a) ==
  IF ColMax(iou, a) < bg_iou_thresh THEN {BELOW_LOW_THRESHOLD}
  ELSE IF ColMax(iou, a) < fg_iou_thresh THEN {BETWEEN_THRESHOLDS}
  ELSE {g - 1 : g \in {h \in 1..Len(iou) : iou[h][a] = ColMax(iou, a)}}

\* the ground-truth rows (from 0) of which anchor a achieves the maximum
RescuedFor(iou, a) ==
  {g - 1 : g \in {h \in 1..Len(iou) : iou[h][a] = RowMax(iou, h)}}

\* the outcomes for anchor a: with low-quality matches allowed, an anchor
\* that achieves the maximum of some ground-truth rows is assigned to one of
\* them, overriding a sentinel
AnchorMatches(iou, a) ==
  IF allow_low_quality_matches /\ RescuedFor(iou, a) # {}
  THEN RescuedFor(iou, a) \cup {m \in ThresholdMatches(iou, a) : m >= 0}
  ELSE ThresholdMatches(iou, a)

\* the results the matcher can return for an IoU matrix with A columns
MatcherResults(iou, A) ==
  {m \in [1..A -> (-2)..(Len(iou) - 1)] : \A a \in 1..A : m[a] \in AnchorMatches(iou, a)}

----------------------------------------------------------------------------
(* RegionProposalNetwork.assign_targets_to_anchors                          *)

LabelsOfSwapped(m) ==
  [a \in 1..Len(m) |->
     IF m[a] = BETWEEN_THRESHOLDS THEN 0
     ELSE IF m[a] = BELOW_LOW_THRESHOLD THEN -1
     ELSE IF m[a] >= 0 THEN 1 ELSE 0]

\* labels_per_image: (matched_idxs >= 0) as float, then 0.0 at the
\* BELOW_LOW_THRESHOLD entries, then -1.0 at the BETWEEN_THRESHOLDS entries
LabelsOf(m) ==
  LET positive   == [a \in 1..Len(m) |-> IF m[a] >= 0 THEN 1 ELSE 0]
      background == [a \in 1..Len(m) |->
                       IF m[a] = BELOW_LOW_THRESHOLD THEN 0 ELSE positive[a]]
  IN  [a \in 1..Len(m) |->
         IF m[a] = BETWEEN_THRESHOLDS THEN -1 ELSE background[a]]

\* gt_boxes[matched_idxs.clamp(min=0)]
MatchedBoxesOf(gt_boxes, m) ==
  [a \in 1..Len(m) |-> gt_boxes[(IF m[a] < 0 THEN 0 ELSE m[a]) + 1]]

EmptyGtLabelsIgnored(n) == [a \in 1..n |-> -1]

\* torch.zeros((anchors_per_image.shape[0],))
EmptyGtLabels(n) == [a \in 1..n |-> 0]

\* torch.zeros(anchors_per_image.shape)
EmptyGtBoxes(n) == [a \in 1..n |-> ZeroBox]

\* the batches: 1..MaxBatch images of 1..MaxAnchors anchors each; per image
\* any number of ground-truth boxes and any IoU matrix over IouValues
RECURSIVE GtCounts(_, _)
GtCounts(n, budget) ==
  IF n = 0 THEN {<<>>}
  ELSE UNION {{<<g>> \o rest : rest \in GtCounts(n - 1, budget - g)} : g \in 0..budget}

\* per image, the IoU matrices of counts[i] ground-truth rows and A columns
RECURSIVE IouMatrices(_, _)
IouMatrices(counts, A) ==
  IF counts = <<>> THEN {<<>>}
  ELSE {<<m>> \o rest : m \in [1..Head(counts) -> [1..A -> IouValues]],
                        rest \in IouMatrices(Tail(counts), A)}

AsgInit ==
  /\ a_anchors \in 1..MaxAnchors
  /\ \E batch \in 1..MaxBatch : a_targets \in GtCounts(batch, MaxCells \div a_anchors)
  /\ a_iou \in IouMatrices(a_targets, a_anchors)
  /\ a_next = 1
  /\ matched_idxs = <<>>
  /\ labels = <<>>
  /\ matched_gt_boxes = <<>>
  /\ matcher_calls = 0

\* no target assignment in this behaviour
AsgIdle ==
  /\ a_anchors = 0
  /\ a_targets = <<>>
  /\ a_iou = <<>>
  /\ a_next = 0
  /\ matched_idxs = <<>>
  /\ labels = <<>>
  /\ matched_gt_boxes = <<>>
  /\ matcher_calls = 0

\* one iteration of the loop over zip(anchors, targets): an image without
\* ground-truth boxes (gt_boxes.numel() == 0)
AssignEmpty ==
  /\ a_next \in 1..Len(a_targets)
  /\ 4 * a_targets[a_next] = 0
  /\ matched_idxs' = Append(matched_idxs, <<>>)
  /\ labels' = Append(labels, EmptyGtLabels(a_anchors))
  /\ matched_gt_boxes' = Append(matched_gt_boxes, EmptyGtBoxes(a_anchors))
  /\ a_next' = a_next + 1
  /\ UNCHANGED <<a_anchors, a_targets, a_iou, matcher_calls>>
  /\ UNCHANGED not_asg_vars

\* one iteration of the loop over zip(anchors, targets): an image with
\* ground-truth boxes
AssignMatched ==
  /\ a_next \in 1..Len(a_targets)
  /\ 4 * a_targets[a_next] # 0
  /\ \E m \in MatcherResults(a_iou[a_next], a_anchors) :
       /\ matched_idxs' = Append(matched_idxs, m)
       /\ labels' = Append(labels, LabelsOf(m))
       /\ matched_gt_boxes' =
            Append(matched_gt_boxes, MatchedBoxesOf(GtBoxes(a_targets[a_next]), m))
  /\ matcher_calls' = matcher_calls + 1
  /\ a_next' = a_next + 1
  /\ UNCHANGED <<a_anchors, a_targets, a_iou>>
  /\ UNCHANGED not_asg_vars

AsgNext == AssignEmpty \/ AssignMatched

----------------------------------------------------------------------------
(* RegionProposalNetwork.filter_proposals: configuration and inputs         *)

PreNmsTopNTraining == 2     \* self._pre_nms_top_n['training']
PreNmsTopNTesting == 1      \* self._pre_nms_top_n['testing']
PostNmsTopNTraining == 3    \* self._post_nms_top_n['training']
PostNmsTopNTesting == 1     \* self._post_nms_top_n['testing']

pre_nms_top_n(is_training) ==
  IF is_training THEN PreNmsTopNTraining ELSE PreNmsTopNTesting

post_nms_top_n(is_training) ==
  IF is_training THEN PostNmsTopNTraining ELSE PostNmsTopNTesting

nms_thresh == 7             \* tenths
min_size == 1

\* values of self.score_thresh, in thousandths
ScoreThresholds == {0, 700}

\* the un-padded (height, width) of every image
ImageShape == <<12, 12>>

\* decoded boxes: two that overlap above nms_thresh, one that reaches over
\* the image border, one that is outside the image but for its left edge
BoxValues == { <<0, 0, 10, 10>>, <<0, 0, 10, 9>>, <<4, 4, 16, 16>>, <<12, 2, 20, 8>> }

\* logits, in thousandths
LogitValues == {0, 1000}

\* torch.sigmoid, in thousandths, on the values that occur
Sigmoid(x) ==
  CASE x = 0 -> 500
    [] x = 1000 -> 731
    [] x = 500 -> 622
    [] x = 731 -> 675

----------------------------------------------------------------------------
(* Box operations (boxes.py), from their specification                      *)

Max(a, b) == IF a >= b THEN a ELSE b

Clamp(v, lo, hi) == Max(lo, Min(v, hi))

\* clip_boxes_to_image(boxes, (height, width))
ClipBox(b, shape) ==
  << Clamp(b[1], 0, shape[2]), Clamp(b[2], 0, shape[1]),
     Clamp(b[3], 0, shape[2]), Clamp(b[4], 0, shape[1]) >>

\* remove_small_boxes keeps the boxes whose width and height reach min_size
NotSmall(b) == (b[3] - b[1] >= min_size) /\ (b[4] - b[2] >= min_size)

Area(b) == (b[3] - b[1]) * (b[4] - b[2])

Intersection(a, b) ==
  Max(0, Min(a[3], b[3]) - Max(a[1], b[1])) * Max(0, Min(a[4], b[4]) - Max(a[2], b[2]))

\* IoU(a, b) > thresh / 10, for boxes of positive area
IouAbove(a, b, thresh) ==
  10 * Intersection(a, b) > thresh * (Area(a) + Area(b) - Intersection(a, b))

\* the orders, best score first, that a sort by descending score can give
\* the entries of S (entries of equal score come in any order)
RECURSIVE RankedSeqs(_)
RankedSeqs(S) ==
  IF S = {} THEN {<<>>}
  ELSE UNION {{<<x>> \o r : r \in RankedSeqs(S \ {x})}
                : x \in {y \in S : \A z \in S : y.score >= z.score}}

\* greedy NMS within each level: going down the ranking, an entry is kept
\* unless a kept entry of its own level overlaps it above nms_thresh
RECURSIVE NmsKeep(_, _)
NmsKeep(ranked, kept) ==
  IF ranked = <<>> THEN kept
  ELSE LET e == Head(ranked)
           suppressed == \E k \in 1..Len(kept) :
                           /\ kept[k].lvl = e.lvl
                           /\ IouAbove(kept[k].box, e.box, nms_thresh)
       IN  NmsKeep(Tail(ranked), IF suppressed THEN kept ELSE Append(kept, e))

\* batched_nms(boxes, scores, lvl, nms_thresh): the kept entries, best first
BatchedNms(entries) ==
  {NmsKeep(r, <<>>) : r \in RankedSeqs({entries[k] : k \in 1..Len(entries)})}

----------------------------------------------------------------------------
(* RegionProposalNetwork._get_top_n_idx and filter_proposals                *)

PrefixWhole(seq, n) == seq

\* seq[:n]
Prefix(seq, n) == SubSeq(seq, 1, Min(n, Len(seq)))

LevelOfFirst(j, counts) == 0

\* levels: the level (from 0) of the anchor at position j
LevelOf(j, counts) ==
  (CHOOSE l \in 1..Len(counts) :
     /\ j <= SumSeq(SubSeq(counts, 1, l))
     /\ j > SumSeq(SubSeq(counts, 1, l - 1))) - 1

\* the proposals of one image with their score, level and position
Entries(boxes, scores, counts) ==
  [j \in 1..Len(boxes) |->
     [id |-> j, box |-> boxes[j], score |-> scores[j], lvl |-> LevelOf(j, counts)]]

\* _get_top_n_idx for one image: per level the min(pre_nms_top_n, anchors
\* of the level) best entries, best first, the levels one after the other
RECURSIVE TopN(_, _, _, _)
TopN(entries, counts, pre, l) ==
  IF l > Len(counts) THEN {<<>>}
  ELSE LET block == {entries[j] : j \in {k \in 1..Len(entries) : entries[k].lvl = l - 1}}
           k     == Min(pre, counts[l])
       IN  {Prefix(r, k) \o rest : r \in RankedSeqs(block),
                                   rest \in TopN(entries, counts, pre, l + 1)}

\* objectness_prob = torch.sigmoid(objectness)
WithProb(sel) == [k \in 1..Len(sel) |-> [sel[k] EXCEPT !.score = Sigmoid(sel[k].score)]]

\* what filter_proposals takes to the NMS: the selected proposals clipped to
\* the image, without the small boxes and the scores below score_thresh
NmsInput(sel, shape, thresh) ==
  LET clipped == [k \in 1..Len(sel) |-> [sel[k] EXCEPT !.box = ClipBox(sel[k].box, shape)]]
      large   == SelectSeq(clipped, LAMBDA e : NotSmall(e.box))
  IN  SelectSeq(large, LAMBDA e : e.score >= thresh)

FilterImageSkipBest(sel, shape, thresh, post) ==
  {[nms |-> keep, out |-> SubSeq(keep, 2, Min(post, Len(keep)))]
     : keep \in BatchedNms(NmsInput(sel, shape, thresh))}

\* the body of the loop over the images: clip, drop the small boxes, drop
\* the scores below score_thresh, NMS per level (nms), keep[:post_nms_top_n]
\* of it (out)
FilterImage(sel, shape, thresh, post) ==
  {[nms |-> keep, out |-> Prefix(keep, post)]
     : keep \in BatchedNms(NmsInput(sel, shape, thresh))}

\* filter_proposals over one image, given as entries
FilterProposals(entries, counts, is_training, thresh) ==
  UNION {{r.out : r \in FilterImage(WithProb(sel), ImageShape, thresh,
                                     post_nms_top_n(is_training))}
           : sel \in TopN(entries, counts, pre_nms_top_n(is_training), 1)}

\* the level counts of a batch: 1..MaxLevels levels of at least one anchor
RECURSIVE LevelCounts(_, _)
LevelCounts(levels, total) ==
  IF levels = 0 THEN (IF total = 0 THEN {<<>>} ELSE {})
  ELSE UNION {{<<c>> \o rest : rest \in LevelCounts(levels - 1, total - c)}
                : c \in 1..total}

FltInit ==
  /\ training \in BOOLEAN
  /\ score_thresh \in ScoreThresholds
  /\ \E images \in 1..MaxBatch :
       \E n \in 1..(MaxProposals \div images) :
         /\ num_anchors_per_level \in
              UNION {LevelCounts(l, n)
                       : l \in {k \in 1..MaxLevels : images * n * k <= MaxSlots}}
         /\ proposals \in [1..images -> [1..n -> BoxValues]]
         /\ objectness \in [1..images -> [1..n -> LogitValues]]
  /\ f_pc = "start"
  /\ selected = <<>>
  /\ final = <<>>
  /\ refiltered = [done |-> FALSE, image |-> 0, by_level |-> FALSE, out |-> <<>>]

\* no proposal filtering in this behaviour
FltIdle ==
  /\ training = FALSE
  /\ score_thresh = 0
  /\ num_anchors_per_level = <<>>
  /\ proposals = <<>>
  /\ objectness = <<>>
  /\ f_pc = "idle"
  /\ selected = <<>>
  /\ final = <<>>
  /\ refiltered = [done |-> FALSE, image |-> 0, by_level |-> FALSE, out |-> <<>>]

\* the sequences with one element of sets[i] at every position i
RECURSIVE Choices(_)
Choices(sets) ==
  IF sets = <<>> THEN {<<>>}
  ELSE {<<x>> \o rest : x \in Head(sets), rest \in Choices(Tail(sets))}

\* filter_proposals up to objectness_prob: the per-level top-n of every
\* image and the gather of scores, levels and boxes
FilterSelect ==
  /\ f_pc = "start"
  /\ selected' \in
       Choices([i \in 1..Len(proposals) |->
                  {WithProb(sel) :
                     sel \in TopN(Entries(proposals[i], objectness[i], num_anchors_per_level),
                                  num_anchors_per_level, pre_nms_top_n(training), 1)}])
  /\ f_pc' = "loop"
  /\ UNCHANGED <<training, score_thresh, num_anchors_per_level, proposals, objectness,
                 final, refiltered>>
  /\ UNCHANGED not_flt_vars

\* one iteration of the loop over the images
FilterLoop ==
  /\ f_pc = "loop"
  /\ Len(final) < Len(selected)
  /\ \E out \in FilterImage(selected[Len(final) + 1], ImageShape, score_thresh,
                            post_nms_top_n(training)) :
       final' = Append(final, out)
  /\ f_pc' = IF Len(final) + 1 = Len(selected) THEN "done" ELSE "loop"
  /\ UNCHANGED <<training, score_thresh, num_anchors_per_level, proposals, objectness,
                 selected, refiltered>>
  /\ UNCHANGED not_flt_vars

\* the entries of an output, level by level
RECURSIVE ByLevel(_, _)
ByLevel(out, l) ==
  IF l >= Len(num_anchors_per_level) THEN <<>>
  ELSE SelectSeq(out, LAMBDA e : e.lvl = l) \o ByLevel(out, l + 1)

\* filter_proposals once more, over the boxes and scores it returned for
\* image i, given as the anchors of a single level
RefilterSingleLevel(i) ==
  /\ f_pc = "done"
  /\ LET out     == final[i].out
         entries == [j \in 1..Len(out) |-> [out[j] EXCEPT !.lvl = 0]]
     IN  \E again \in FilterProposals(entries, <<Len(out)>>, training, score_thresh) :
           refiltered' = [done |-> TRUE, image |-> i, by_level |-> FALSE, out |-> again]
  /\ f_pc' = "refiltered"
  /\ UNCHANGED <<training, score_thresh, num_anchors_per_level, proposals, objectness,
                 selected, final>>
  /\ UNCHANGED not_flt_vars

\* filter_proposals once more, over the boxes and scores it returned for
\* image i, given level by level with the levels they came from
RefilterByLevel(i) ==
  /\ f_pc = "done"
  /\ LET entries == ByLevel(final[i].out, 0)
         counts  == [l \in 1..Len(num_anchors_per_level) |->
                       Len(SelectSeq(final[i].out, LAMBDA e : e.lvl = l - 1))]
     IN  \E again \in FilterProposals(entries, counts, training, score_thresh) :
           refiltered' = [done |-> TRUE, image |-> i, by_level |-> TRUE, out |-> again]
  /\ f_pc' = "refiltered"
  /\ UNCHANGED <<training, score_thresh, num_anchors_per_level, proposals, objectness,
                 selected, final>>
  /\ UNCHANGED not_flt_vars

FltNext ==
  \/ FilterSelect
  \/ FilterLoop
  \/ \E i \in 1..Len(final) : RefilterSingleLevel(i)
  \/ \E i \in 1..Len(final) : RefilterByLevel(i)

----------------------------------------------------------------------------
(* RegionProposalNetwork.forward                                            *)

batch_size_per_image == 2   \* of the BalancedPositiveNegativeSampler
positive_fraction == <<1, 2>>

\* the proposal that box_coder.decode yields for the anchor at position j
DecodedBoxes == << <<0, 0, 10, 10>>, <<0, 0, 10, 9>>, <<4, 4, 16, 16>>, <<12, 2, 20, 8>> >>

LossKeys == {"loss_objectness", "loss_rpn_box_reg"}

computes_losses_if_targets(is_training, given) == given

\* if self.training: the branch of forward that assigns targets and
\* computes the losses
computes_losses(is_training, given) == is_training

\* fg_bg_sampler over the labels of one image: how many positive and how
\* many negative anchors it samples
Sampled(lab) ==
  LET pos     == Cardinality({a \in 1..Len(lab) : lab[a] >= 1})
      neg     == Cardinality({a \in 1..Len(lab) : lab[a] = 0})
      num_pos == Min(pos, (batch_size_per_image * positive_fraction[1])
                            \div positive_fraction[2])
  IN  <<num_pos, Min(neg, batch_size_per_image - num_pos)>>

\* compute_loss: the exception of the division that yields alpha, if any
ComputeLossError(labs) ==
  LET pos == SumSeq([i \in 1..Len(labs) |-> Sampled(labs[i])[1]])
      neg == SumSeq([i \in 1..Len(labs) |-> Sampled(labs[i])[2]])
  IN  IF pos + neg = 0 THEN "ZeroDivisionError" ELSE ""

\* the subsets of S with n elements
SubsetsOfSize(S, n) == {T \in SUBSET S : Cardinality(T) = n}

\* fg_bg_sampler over the labels of the batch: the positions <<image, anchor>>
\* it can sample, the positive ones and the negative ones
RECURSIVE SampledSets(_, _)
SampledSets(labs, i) ==
  IF i > Len(labs) THEN {[pos |-> {}, neg |-> {}]}
  ELSE LET lab == labs[i]
           P   == {<<i, a>> : a \in {b \in 1..Len(lab) : lab[b] >= 1}}
           N   == {<<i, a>> : a \in {b \in 1..Len(lab) : lab[b] = 0}}
       IN  {[pos |-> sp \cup rest.pos, neg |-> sn \cup rest.neg]
              : sp \in SubsetsOfSize(P, Sampled(lab)[1]),
                sn \in SubsetsOfSize(N, Sampled(lab)[2]),
                rest \in SampledSets(labs, i + 1)}

\* the smooth L1 loss between the predicted deltas and the regression
\* target of the anchor at position <<image, anchor>>, summed over its four
\* coordinates
SmoothL1Term(at) == at[1] + 2 * at[2]

RECURSIVE SumOver(_)
SumOver(S) ==
  IF S = {} THEN 0
  ELSE LET at == CHOOSE x \in S : TRUE IN SmoothL1Term(at) + SumOver(S \ {at})

NoLossTerms == [pos |-> {}, neg |-> {}, box_loss |-> <<0, 1>>, alpha |-> <<0, 1>>]

BoxLossPerPositive(sp, sn) == <<SumOver(sp), Cardinality(sp)>>

\* box_loss: smooth_l1_loss(..., size_average=False) over the sampled
\* positives, divided by sampled_inds.numel(); numerator and denominator
BoxLoss(sp, sn) == <<SumOver(sp), Cardinality(sp) + Cardinality(sn)>>

\* alpha = len(sampled_neg_inds) / (len(sampled_pos_inds) + len(sampled_neg_inds))
Alpha(sp, sn) == <<Cardinality(sn), Cardinality(sp) + Cardinality(sn)>>

\* one call of forward: the module in either mode, targets None or a list
\* with the ground-truth boxes of every image
RpnInit ==
  /\ training \in BOOLEAN
  /\ score_thresh = 0
  /\ targets_given \in BOOLEAN
  /\ \E images \in 1..MaxBatch :
       \E n \in 1..Min(MaxAnchors, MaxProposals \div images) :
         /\ a_anchors = n
         /\ num_anchors_per_level \in
              UNION {LevelCounts(l, n)
                       : l \in {k \in 1..MaxLevels : images * n * k <= MaxSlots}}
         /\ proposals = [i \in 1..images |-> [j \in 1..n |-> DecodedBoxes[j]]]
         /\ objectness \in [1..images -> [1..n -> LogitValues]]
         /\ IF targets_given
            THEN a_targets \in GtCounts(images, MaxCells \div (images * n))
            ELSE a_targets = <<>>
  /\ a_iou \in IouMatrices(a_targets, a_anchors)
  /\ a_next = 0
  /\ matched_idxs = <<>>
  /\ labels = <<>>
  /\ matched_gt_boxes = <<>>
  /\ matcher_calls = 0
  /\ f_pc = "start"
  /\ selected = <<>>
  /\ final = <<>>
  /\ refiltered = [done |-> FALSE, image |-> 0, by_level |-> FALSE, out |-> <<>>]
  /\ r_pc = "call"
  /\ r_boxes = <<>>
  /\ losses = {}
  /\ error = ""
  /\ loss_terms = NoLossTerms

\* no call of RegionProposalNetwork.forward in this behaviour
RpnIdle ==
  /\ r_pc = "idle"
  /\ targets_given = FALSE
  /\ r_boxes = <<>>
  /\ losses = {}
  /\ error = ""
  /\ loss_terms = NoLossTerms

\* forward up to boxes, scores = self.filter_proposals(...)
RpnFilter ==
  /\ r_pc = "call"
  /\ FilterSelect \/ FilterLoop

\* forward outside the branch: return boxes, losses with losses = {}
RpnReturnNoLosses ==
  /\ r_pc = "call"
  /\ f_pc = "done"
  /\ ~computes_losses(training, targets_given)
  /\ r_boxes' = [i \in 1..Len(final) |-> final[i].out]
  /\ losses' = {}
  /\ r_pc' = "returned"
  /\ UNCHANGED <<targets_given, error, loss_terms>>
  /\ UNCHANGED <<gen_vars, asg_vars, flt_vars, head_vars>>

\* assert targets is not None, failing
RpnAssertFails ==
  /\ r_pc = "call"
  /\ f_pc = "done"
  /\ computes_losses(training, targets_given)
  /\ ~targets_given
  /\ error' = "AssertionError"
  /\ r_pc' = "raised"
  /\ UNCHANGED <<targets_given, r_boxes, losses, loss_terms>>
  /\ UNCHANGED <<gen_vars, asg_vars, flt_vars, head_vars>>

\* assert targets is not None, passing: assign_targets_to_anchors begins
RpnAssertPasses ==
  /\ r_pc = "call"
  /\ f_pc = "done"
  /\ computes_losses(training, targets_given)
  /\ targets_given
  /\ a_next' = 1
  /\ r_pc' = "assign"
  /\ UNCHANGED <<a_anchors, a_targets, a_iou, matched_idxs, labels, matched_gt_boxes,
                 matcher_calls>>
  /\ UNCHANGED <<targets_given, r_boxes, losses, error, loss_terms>>
  /\ UNCHANGED <<gen_vars, flt_vars, head_vars>>

\* the loop of assign_targets_to_anchors
RpnAssign ==
  /\ r_pc = "assign"
  /\ AssignEmpty \/ AssignMatched

\* box_coder.encode, compute_loss and the return of boxes and both losses
RpnLoss ==
  /\ r_pc = "assign"
  /\ a_next = Len(a_targets) + 1
  /\ \E smp \in SampledSets(labels, 1) :
       /\ loss_terms' = [pos |-> smp.pos, neg |-> smp.neg,
                         box_loss |-> BoxLoss(smp.pos, smp.neg),
                         alpha |-> Alpha(smp.pos, smp.neg)]
       /\ IF ComputeLossError(labels) = ""
          THEN /\ r_boxes' = [i \in 1..Len(final) |-> final[i].out]
               /\ losses' = LossKeys
               /\ r_pc' = "returned"
               /\ UNCHANGED error
          ELSE /\ error' = ComputeLossError(labels)
               /\ r_pc' = "raised"
               /\ UNCHANGED <<r_boxes, losses>>
  /\ UNCHANGED targets_given
  /\ UNCHANGED <<gen_vars, asg_vars, flt_vars, head_vars>>

RpnNext ==
  \/ RpnFilter
  \/ RpnReturnNoLosses
  \/ RpnAssertFails
  \/ RpnAssertPasses
  \/ RpnAssign
  \/ RpnLoss

----------------------------------------------------------------------------
(* Tensors: a shape and the elements in row-major order                     *)

RECURSIVE Numel(_)
Numel(shape) == IF shape = <<>> THEN 1 ELSE Head(shape) * Numel(Tail(shape))

\* the multi-index (from 0) of the element at offset i (from 0)
RECURSIVE Unravel(_, _)
Unravel(i, shape) ==
  IF shape = <<>> THEN <<>>
  ELSE LET n == Len(shape)
       IN  Append(Unravel(i \div shape[n], SubSeq(shape, 1, n - 1)), i % shape[n])

\* the offset (from 0) of the element at multi-index mi
RECURSIVE Ravel(_, _)
Ravel(mi, shape) ==
  IF shape = <<>> THEN 0
  ELSE LET n == Len(shape)
       IN  Ravel(SubSeq(mi, 1, n - 1), SubSeq(shape, 1, n - 1)) * shape[n] + mi[n]

At(t, mi) == t.data[Ravel(mi, t.shape) + 1]

\* Tensor.view / Tensor.reshape to a shape of the same number of elements
Reshape(t, shape) == [shape |-> shape, data |-> t.data]

\* Tensor.permute(dims): dimension k of the result is dimension dims[k] of t
Permute(t, dims) ==
  LET shape == [k \in 1..Len(dims) |-> t.shape[dims[k] + 1]]
  IN  [shape |-> shape,
       data  |-> [i \in 1..Numel(shape) |->
                    LET mi == Unravel(i - 1, shape)
                    IN  At(t, [d \in 1..Len(dims) |->
                                 mi[CHOOSE k \in 1..Len(dims) : dims[k] = d - 1]])]]

\* torch.cat(ts, dim=1) of tensors of shape [N, R, C]
CatDim1(ts) ==
  LET N     == ts[1].shape[1]
      C     == ts[1].shape[3]
      rows  == [l \in 1..Len(ts) |-> ts[l].shape[2]]
      shape == <<N, SumSeq(rows), C>>
  IN  [shape |-> shape,
       data  |-> [i \in 1..Numel(shape) |->
                    LET mi  == Unravel(i - 1, shape)
                        l   == CHOOSE k \in 1..Len(ts) :
                                 /\ SumSeq(SubSeq(rows, 1, k - 1)) <= mi[2]
                                 /\ mi[2] < SumSeq(SubSeq(rows, 1, k))
                    IN  At(ts[l], <<mi[1], mi[2] - SumSeq(SubSeq(rows, 1, l - 1)), mi[3]>>)]]

----------------------------------------------------------------------------
(* RPNHead.forward and concat_box_prediction_layers                         *)

\* num_anchors of the RPNHead
HeadNumAnchors == {1, 2}

\* the output of a convolution with the given channels over feature map l:
\* every element is named by what predicted it
ConvOutput(name, l, N, channels, grid) ==
  LET shape == <<N, channels, grid[1], grid[2]>>
  IN  [shape |-> shape,
       data  |-> [i \in 1..Numel(shape) |-> <<name, l, Unravel(i - 1, shape)>>]]

\* RPNHead.forward: logits and bbox_reg, one tensor per feature map
Logits(in) ==
  [l \in 1..Len(in.grids) |-> ConvOutput("cls", l, in.N, in.A, in.grids[l])]

BboxReg(in) ==
  [l \in 1..Len(in.grids) |-> ConvOutput("reg", l, in.N, in.A * 4, in.grids[l])]

permute_and_flatten_unpermuted(layer, N, A, C, H, W) ==
  Reshape(layer, <<N, Numel(layer.shape) \div (N * C), C>>)

\* permute_and_flatten: view(N, -1, C, H, W), permute(0, 3, 4, 1, 2),
\* reshape(N, -1, C)
permute_and_flatten(layer, N, A, C, H, W) ==
  LET viewed   == Reshape(layer, <<N, Numel(layer.shape) \div (N * C * H * W), C, H, W>>)
      permuted == Permute(viewed, <<0, 3, 4, 1, 2>>)
  IN  Reshape(permuted, <<N, Numel(layer.shape) \div (N * C), C>>)

NoTensor == [shape |-> <<>>, data |-> <<>>]

\* a call of RegionProposalNetwork.forward up to the head's outputs
HeadInit ==
  /\ h_in \in [N : 1..MaxBatch, grids : FeatureShapes, image_size : ImageSizes,
               A : HeadNumAnchors]
  /\ h_pc = "counts"
  /\ h_flat = [cls |-> <<>>, reg |-> <<>>]
  /\ h_out = [box_cls |-> NoTensor, box_regression |-> NoTensor]

\* no predictor output in this behaviour
HeadIdle ==
  /\ h_in = [N |-> 0, grids |-> <<>>, image_size |-> <<0, 0>>, A |-> 0]
  /\ h_pc = "idle"
  /\ h_flat = [cls |-> <<>>, reg |-> <<>>]
  /\ h_out = [box_cls |-> NoTensor, box_regression |-> NoTensor]

\* forward: num_anchors_per_level from the shapes of objectness
HeadLevelCounts ==
  /\ h_pc = "counts"
  /\ num_anchors_per_level' =
       [l \in 1..Len(h_in.grids) |->
          LET shp == Tail(Logits(h_in)[l].shape)
          IN  shp[1] * shp[2] * shp[3]]
  /\ h_pc' = "loop"
  /\ UNCHANGED <<h_in, h_flat, h_out>>
  /\ UNCHANGED <<training, score_thresh, f_pc, proposals, objectness, selected, final,
                 refiltered>>
  /\ UNCHANGED <<gen_vars, asg_vars, rpn_vars>>

\* concat_box_prediction_layers: one iteration of the loop over the levels
ConcatLevel ==
  /\ h_pc = "loop"
  /\ LET l        == Len(h_flat.cls) + 1
         cls      == Logits(h_in)[l]
         reg      == BboxReg(h_in)[l]
         N        == cls.shape[1]
         AxC      == cls.shape[2]
         H        == cls.shape[3]
         W        == cls.shape[4]
         Ax4      == reg.shape[2]
         A        == Ax4 \div 4
         C        == AxC \div A
     IN  /\ h_flat' = [cls |-> Append(h_flat.cls, permute_and_flatten(cls, N, A, C, H, W)),
                       reg |-> Append(h_flat.reg, permute_and_flatten(reg, N, A, 4, H, W))]
         /\ h_pc' = IF l = Len(h_in.grids) THEN "cat" ELSE "loop"
  /\ UNCHANGED <<h_in, h_out>>
  /\ UNCHANGED <<gen_vars, asg_vars, flt_vars, rpn_vars>>

\* concat_box_prediction_layers: torch.cat(..., dim=1), flatten(0, -2) and
\* reshape(-1, 4)
ConcatReturn ==
  /\ h_pc = "cat"
  /\ LET cls == CatDim1(h_flat.cls)
         reg == CatDim1(h_flat.reg)
     IN  h_out' = [box_cls        |-> Reshape(cls, <<cls.shape[1] * cls.shape[2], cls.shape[3]>>),
                   box_regression |-> Reshape(reg, <<Numel(reg.shape) \div 4, 4>>)]
  /\ h_pc' = "done"
  /\ UNCHANGED <<h_in, h_flat>>
  /\ UNCHANGED <<gen_vars, asg_vars, flt_vars, rpn_vars>>

HeadNext == HeadLevelCounts \/ ConcatLevel \/ ConcatReturn

----------------------------------------------------------------------------
(* Specifications                                                           *)

\* the anchor generator, one forward call at a time
Init == GenInit /\ AsgIdle /\ FltIdle /\ RpnIdle /\ HeadIdle

Next == GenNext

Spec == Init /\ [][Next]_vars

\* assign_targets_to_anchors over one batch
InitAssign == GenIdle /\ AsgInit /\ FltIdle /\ RpnIdle /\ HeadIdle

SpecAssign == InitAssign /\ [][AsgNext]_vars

\* filter_proposals over one batch, and once more over its output
InitFilter == GenIdle /\ AsgIdle /\ FltInit /\ RpnIdle /\ HeadIdle

SpecFilter == InitFilter /\ [][FltNext]_vars

\* the generator, its forward calls interleaving
SpecConcurrent == Init /\ [][ConcNext]_vars

\* one call of AnchorsGenerator.__init__
InitCtor == CtorInit /\ AsgIdle /\ FltIdle /\ RpnIdle /\ HeadIdle

SpecCtor == InitCtor /\ [][CtorNext]_vars

\* the predictor outputs of one forward call and their flattening, for a
\* constructed generator
InitHead == GenInit /\ AsgIdle /\ FltIdle /\ RpnIdle /\ HeadInit

SpecHead == InitHead /\ [][HeadNext]_vars

\* one call of RegionProposalNetwork.forward
InitRpn == GenIdle /\ RpnInit /\ HeadIdle

SpecRpn == InitRpn /\ [][RpnNext]_vars

----------------------------------------------------------------------------
(* Properties of the generator                                              *)

Idle == \A p \in Procs : pc[p] = "idle"

Returned == ret.done /\ Idle

ObjIds(objs) == {objs[k].id : k \in DOMAIN objs}

\* the number of anchors of level l of a call: H * W * |scales| * |aspect ratios|
ExpectedLevelCount(c, l) ==
  c.grid_sizes[l][1] * c.grid_sizes[l][2] * Len(sizes[l]) * Len(aspect_ratios[l])

\* C1: with one forward call in flight at a time, the grid cache is empty
\* whenever no call is in flight (so at the return of every call), and every
\* call finds it empty when it looks its key up: no entry written by one
\* call is visible to a later one.
C1_CacheEmptyAtReturn ==
  /\ Idle => _cache = EmptyCache
  /\ \A p \in Procs : pc[p] = "cached" => DOMAIN _cache = {}

\* a second call has returned, after it had written its own cache entry
C1_Witness ==
  /\ Returned
  /\ ncalls = 2
  /\ ret.call.grid_runs = 1
  /\ _cache = EmptyCache

\* C2 (as claimed): the cached templates are the ones computed for the
\* (dtype, device) pair of the most recent set_cell_anchors call.
C2_TemplatesOfLastPair ==
  cell_anchors.set => <<cell_anchors.dtype, cell_anchors.device>> = last_set

\* C3 (as claimed): a call computes the grid anchors once and gives every
\* image of the batch the same AnchorSet object.
C3_SameObjectForEveryImage ==
  Returned =>
    /\ ret.call.grid_runs = 1
    /\ \A i, j \in 1..ret.call.batch : ret.call.out[i].id = ret.call.out[j].id

\* C3 (amended): a call runs grid_anchors exactly once whatever the batch
\* size; the list built for every image holds the very per-level tensors
\* that grid_anchors returned; the AnchorSet returned for each image is a
\* new tensor (one torch.cat per image) with the same boxes, the
\* concatenation of the per-level tensors.
C3_ComputedOnceLevelsShared ==
  /\ \A p \in Procs :
       pc[p] \in {"loop", "cat", "clear"} => loc[p].grid_runs = 1
  /\ \A p \in Procs :
       pc[p] \in {"cat", "clear"} =>
         \A i \in 1..loc[p].batch : loc[p].per_image[i] = loc[p].over
  /\ Returned =>
       LET c == ret.call
       IN  /\ c.grid_runs = 1
           /\ \A i \in 1..c.batch :
                /\ c.per_image[i] = c.over
                /\ c.out[i].boxes = Concat([l \in 1..Len(c.over) |-> c.over[l].boxes])
                /\ c.out[i].id \notin ObjIds(c.over)
           /\ \A i, j \in 1..c.batch : i # j => c.out[i].id # c.out[j].id

\* a call over a batch of two images has returned
C3_Witness ==
  /\ Returned
  /\ ret.call.batch >= 2
  /\ ret.call.out[1].boxes = ret.call.out[2].boxes
  /\ Len(ret.call.out[1].boxes) > 0

\* C4: grid_anchors produces H * W * |scales| * |aspect ratios| anchors for
\* every level that has a feature map and a configuration, which is H * W *
\* num_anchors_per_location of the level, and the AnchorSet of every image
\* has the sum of these counts over the levels.
C4_AnchorCounts ==
  /\ \A p \in Procs :
       pc[p] \in {"loop", "cat", "clear"} =>
         LET c == loc[p]
         IN  /\ Len(c.over) = Min(Len(c.grid_sizes), Len(sizes))
             /\ \A l \in 1..Len(c.over) :
                  /\ Len(c.over[l].boxes) = ExpectedLevelCount(c, l)
                  /\ Len(c.over[l].boxes) =
                       c.grid_sizes[l][1] * c.grid_sizes[l][2]
                         * num_anchors_per_location(sizes, aspect_ratios)[l]
  /\ Returned =>
       LET c == ret.call
       IN  \A i \in 1..c.batch :
             Len(c.out[i].boxes) =
               SumSeq([l \in 1..Len(c.over) |-> ExpectedLevelCount(c, l)])

\* a call over two levels, one of them with two scales or two aspect ratios
\* and more than one grid cell, has returned
C4_Witness ==
  /\ Returned
  /\ Len(ret.call.over) = 2
  /\ \E l \in 1..2 :
       /\ Len(sizes[l]) * Len(aspect_ratios[l]) >= 2
       /\ ret.call.grid_sizes[l][1] * ret.call.grid_sizes[l][2] >= 2
  /\ Len(ret.call.out[1].boxes) >= 5

----------------------------------------------------------------------------
(* Properties of target assignment                                          *)

AsgDone == a_next = Len(a_targets) + 1

\* C5: for every image with at least one ground-truth box, every anchor gets
\* one label of {1, 0, -1}: 1 when the matcher returned a ground-truth index
\* (the best IoU reaches the high threshold, or the anchor was force-assigned
\* by the low-quality rescue), and then its matched box is the ground-truth
\* box of that index; otherwise -1 when the result is BETWEEN (low <= best
\* IoU < high); otherwise 0 when it is BELOW_LOW (best IoU < low).
C5_LabelsFollowMatcher ==
  \A i \in 1..Len(labels) :
    a_targets[i] >= 1 =>
      /\ Len(labels[i]) = a_anchors
      /\ Len(matched_gt_boxes[i]) = a_anchors
      /\ \A a \in 1..a_anchors :
           LET m    == matched_idxs[i][a]
               best == ColMax(a_iou[i], a)
               l    == labels[i][a]
           IN  /\ l \in {1, 0, -1}
               /\ (m >= 0) <=> (best >= fg_iou_thresh \/ RescuedFor(a_iou[i], a) # {})
               /\ m >= 0 =>
                    /\ l = 1
                    /\ m < a_targets[i]
                    /\ matched_gt_boxes[i][a] = GtBoxes(a_targets[i])[m + 1]
               /\ (m < 0 /\ best >= bg_iou_thresh) =>
                    /\ m = BETWEEN_THRESHOLDS
                    /\ best < fg_iou_thresh
                    /\ l = -1
               /\ (m < 0 /\ best < bg_iou_thresh) =>
                    /\ m = BELOW_LOW_THRESHOLD
                    /\ l = 0

\* a batch with an ignored anchor, a background anchor and an anchor that
\* is positive by the rescue only has been labelled
C5_Witness ==
  /\ AsgDone
  /\ \E i \in 1..Len(labels) :
       a_targets[i] >= 1 /\ -1 \in {labels[i][a] : a \in 1..a_anchors}
  /\ \E i \in 1..Len(labels) :
       a_targets[i] >= 1 /\ 0 \in {labels[i][a] : a \in 1..a_anchors}
  /\ \E i \in 1..Len(labels) :
       /\ a_targets[i] >= 1
       /\ \E a \in 1..a_anchors :
            labels[i][a] = 1 /\ ColMax(a_iou[i], a) < fg_iou_thresh

\* C6 (as claimed): after matching, every ground-truth box has at least one
\* anchor assigned to it.
C6_EveryGtHasItsAnchor ==
  \A i \in 1..Len(labels) :
    \A g \in 1..a_targets[i] :
      \E a \in 1..a_anchors : matched_idxs[i][a] = g - 1

\* C6 (amended): after matching, every ground-truth box has, among the
\* anchors that achieve its maximum IoU, at least one that is assigned to a
\* ground-truth box and labelled positive, also when that maximum is below
\* the high threshold; the box it is assigned to need not be this one.
C6_EveryGtHasPositiveBestAnchor ==
  \A i \in 1..Len(labels) :
    \A g \in 1..a_targets[i] :
      \E a \in 1..a_anchors :
        /\ a_iou[i][g][a] = RowMax(a_iou[i], g)
        /\ matched_idxs[i][a] >= 0
        /\ labels[i][a] = 1

\* an image with a ground-truth box whose best IoU is below the low
\* threshold has been matched
C6_Witness ==
  /\ AsgDone
  /\ \E i \in 1..Len(labels) :
       /\ a_targets[i] >= 2
       /\ \E g \in 1..a_targets[i] : RowMax(a_iou[i], g) < bg_iou_thresh
       /\ \E a \in 1..a_anchors : labels[i][a] = 1

\* C7: an image without ground-truth boxes gets label 0 for every anchor and
\* an all-zero matched box for every anchor, the matcher is not invoked for
\* it, and the other images of the batch are labelled from their own
\* matcher result.
C7_EmptyGtAllBackground ==
  /\ \A i \in 1..Len(labels) :
       a_targets[i] = 0 =>
         /\ Len(labels[i]) = a_anchors
         /\ Len(matched_gt_boxes[i]) = a_anchors
         /\ \A a \in 1..a_anchors :
              labels[i][a] = 0 /\ matched_gt_boxes[i][a] = ZeroBox
         /\ matched_idxs[i] = <<>>
  /\ matcher_calls = Cardinality({i \in 1..Len(labels) : a_targets[i] >= 1})
  /\ \A i \in 1..Len(labels) :
       a_targets[i] >= 1 =>
         /\ matched_idxs[i] \in MatcherResults(a_iou[i], a_anchors)
         /\ \A a \in 1..a_anchors :
              /\ labels[i][a] = 1 <=> matched_idxs[i][a] >= 0
              /\ labels[i][a] = -1 <=> matched_idxs[i][a] = BETWEEN_THRESHOLDS
  /\ Len(labels) = a_next - 1
  /\ Len(matched_gt_boxes) = a_next - 1

\* a batch of an image without ground-truth boxes and an image with a
\* positive anchor has been labelled
C7_Witness ==
  /\ AsgDone
  /\ Len(labels) = 2
  /\ a_anchors = 2
  /\ \E i, j \in 1..2 :
       /\ a_targets[i] = 0
       /\ labels[i] = <<0, 0>>
       /\ a_targets[j] >= 1
       /\ 1 \in {labels[j][a] : a \in 1..a_anchors}

----------------------------------------------------------------------------
(* Properties of proposal filtering                                         *)

Ids(seq) == {seq[k].id : k \in 1..Len(seq)}

Elems(seq) == {seq[k] : k \in 1..Len(seq)}

BoxesOf(seq) == {seq[k].box : k \in 1..Len(seq)}

\* the pyramid level (from 0) that the anchor at position id belongs to
OriginLevel(id) ==
  Cardinality({l \in 1..Len(num_anchors_per_level) :
                 id > SumSeq(SubSeq(num_anchors_per_level, 1, l))})

\* what went into the NMS of image i
NmsInputOf(i) == NmsInput(selected[i], ImageShape, score_thresh)

\* no two entries of the same level overlap above nms_thresh
NoOverlapWithinLevels(seq) ==
  \A e1, e2 \in Elems(seq) :
    (e1.id # e2.id /\ OriginLevel(e1.id) = OriginLevel(e2.id))
      => ~IouAbove(e1.box, e2.box, nms_thresh)

\* a box that no other box of its own level overlaps above nms_thresh
\* passes the NMS
NeverAcrossLevels(i) ==
  \A x \in Elems(NmsInputOf(i)) :
    (\A y \in Elems(NmsInputOf(i)) :
       (y.id # x.id /\ OriginLevel(y.id) = OriginLevel(x.id))
         => ~IouAbove(y.box, x.box, nms_thresh))
      => x.id \in Ids(final[i].nms)

\* C8 (as claimed): no two retained boxes of one level overlap above
\* nms_thresh, and every box the NMS removed is overlapped above nms_thresh
\* by a retained box of its level with a higher score.
C8_SuppressedByHigherScore ==
  f_pc \in {"loop", "done"} => \A i \in 1..Len(final) :
    /\ NoOverlapWithinLevels(final[i].out)
    /\ NeverAcrossLevels(i)
    /\ \A x \in Elems(NmsInputOf(i)) :
         x.id \notin Ids(final[i].nms) =>
           \E k \in Elems(final[i].nms) :
             /\ OriginLevel(k.id) = OriginLevel(x.id)
             /\ IouAbove(k.box, x.box, nms_thresh)
             /\ k.score > x.score

\* C8 (amended): no two retained boxes of one level overlap above
\* nms_thresh; every box the NMS removed is overlapped above nms_thresh by a
\* retained box of its own level whose score is at least as high; a box that
\* only boxes of other levels overlap is not removed.
C8_SuppressedWithinLevel ==
  f_pc \in {"loop", "done"} => \A i \in 1..Len(final) :
    /\ NoOverlapWithinLevels(final[i].nms)
    /\ NoOverlapWithinLevels(final[i].out)
    /\ NeverAcrossLevels(i)
    /\ \A x \in Elems(NmsInputOf(i)) :
         x.id \notin Ids(final[i].nms) =>
           \E k \in Elems(final[i].nms) :
             /\ OriginLevel(k.id) = OriginLevel(x.id)
             /\ IouAbove(k.box, x.box, nms_thresh)
             /\ k.score >= x.score

\* an image for which the NMS removed a box of one level and kept a box of
\* another level that overlaps a kept box above nms_thresh
C8_Witness ==
  /\ f_pc = "done"
  /\ \E i \in 1..Len(final) :
       /\ \E x \in Elems(NmsInputOf(i)) : x.id \notin Ids(final[i].nms)
       /\ \E e1, e2 \in Elems(final[i].out) :
            /\ OriginLevel(e1.id) # OriginLevel(e2.id)
            /\ IouAbove(e1.box, e2.box, nms_thresh)

\* no two entries overlap above nms_thresh
NoOverlap(seq) ==
  \A e1, e2 \in Elems(seq) : e1.id # e2.id => ~IouAbove(e1.box, e2.box, nms_thresh)

\* C9 (as claimed): a second filter_proposals over the output of the first
\* returns the same set of boxes.
C9_RefilterSameBoxes ==
  refiltered.done => BoxesOf(refiltered.out) = BoxesOf(final[refiltered.image].out)

\* C9 (amended): with score_thresh at most 0.5, a second filter_proposals
\* over the boxes and scores returned for an image never adds a box; it
\* returns the same boxes when they are given level by level with the levels
\* they came from; given as one level, it returns the same boxes if no two
\* of them overlap above nms_thresh and they are at most pre_nms_top_n.
C9_RefilterByLevelSameBoxes ==
  refiltered.done =>
    LET first == final[refiltered.image].out
    IN  /\ Elems(refiltered.out) \subseteq
             {[e EXCEPT !.score = Sigmoid(e.score),
                        !.lvl = IF refiltered.by_level THEN e.lvl ELSE 0]
                : e \in Elems(first)}
        /\ (score_thresh <= 500 /\ refiltered.by_level)
             => Ids(refiltered.out) = Ids(first)
        /\ (score_thresh <= 500 /\ ~refiltered.by_level /\ NoOverlap(first)
              /\ Len(first) <= pre_nms_top_n(training))
             => Ids(refiltered.out) = Ids(first)

\* the second pass was given two boxes of two levels that overlap above
\* nms_thresh, level by level, and returned both
C9_Witness ==
  /\ refiltered.done
  /\ refiltered.by_level
  /\ Len(refiltered.out) = 2
  /\ ~NoOverlap(final[refiltered.image].out)
  /\ Ids(refiltered.out) = Ids(final[refiltered.image].out)

----------------------------------------------------------------------------
(* Properties of RegionProposalNetwork.forward                              *)

\* the call has ended, by a return or by an exception
RpnEnded == r_pc \in {"returned", "raised"}

\* assign_targets_to_anchors was entered
RpnAssigned == a_next > 0

\* C10 (as claimed): forward assigns labels and computes the losses exactly
\* when targets are supplied: without targets it returns proposals and an
\* empty loss set without error, with targets it returns both losses.
C10_LossesFollowTargets ==
  RpnEnded =>
    IF targets_given
    THEN r_pc = "returned" /\ RpnAssigned /\ losses = LossKeys
    ELSE r_pc = "returned" /\ ~RpnAssigned /\ losses = {} /\ error = ""

\* C10 (amended): forward assigns labels and computes the losses exactly
\* when the module is in training mode: in evaluation mode it returns the
\* proposals and an empty loss dict, with or without targets; in training
\* mode with targets it returns the proposals and both losses; in training
\* mode without targets it raises AssertionError, after the proposals were
\* filtered and before any label is assigned.
C10_LossesFollowTrainingMode ==
  /\ RpnAssigned => (training /\ targets_given)
  /\ r_pc = "returned" =>
       /\ r_boxes = [i \in 1..Len(proposals) |-> final[i].out]
       /\ error = ""
       /\ training => /\ targets_given
                      /\ losses = LossKeys
                      /\ Len(labels) = Len(proposals)
       /\ ~training => /\ losses = {}
                       /\ labels = <<>>
                       /\ matcher_calls = 0
  /\ r_pc = "raised" =>
       /\ training
       /\ ~targets_given
       /\ error = "AssertionError"
       /\ Len(final) = Len(proposals)
       /\ labels = <<>>
       /\ losses = {}
  /\ (r_pc = "call" /\ f_pc = "done") => ~(RpnAssigned \/ losses # {})

\* a call in training mode returned both losses after the matcher ran
C10_Witness ==
  /\ r_pc = "returned"
  /\ training
  /\ targets_given
  /\ matcher_calls > 0
  /\ losses = LossKeys

----------------------------------------------------------------------------
(* Properties of the construction of the generator                          *)

\* the number of levels an argument of __init__ names; a flat aspect_ratios
\* names none of its own
ArgLevels(a) == IF a.nested THEN Len(a.levels) ELSE Len(a.flat)

\* C11: per-level sizes and per-level aspect ratios with different numbers
\* of levels fail the assertion of __init__, so that a constructed
\* generator has as many levels of sizes as of aspect ratios; flat sizes
\* become one level each, flat aspect ratios are repeated for every level of
\* sizes, and flat arguments pass the assertion.
C11_MismatchedLevelsFailAtConstruction ==
  LET sa == init_args[1]
      aa == init_args[2]
  IN  /\ constructed => Len(sizes) = Len(aspect_ratios)
      /\ init_pc = "call" => ~constructed
      /\ init_pc \in {"returned", "raised"} =>
           /\ constructed <=> init_pc = "returned"
           /\ (aa.nested /\ ArgLevels(sa) # ArgLevels(aa)) =>
                /\ init_pc = "raised"
                /\ sizes = <<>> /\ aspect_ratios = <<>>
           /\ ~aa.nested =>
                /\ init_pc = "returned"
                /\ Len(sizes) = ArgLevels(sa)
                /\ \A l \in 1..Len(aspect_ratios) : aspect_ratios[l] = aa.flat
           /\ (~sa.nested /\ constructed) =>
                /\ Len(sizes) = Len(sa.flat)
                /\ \A l \in 1..Len(sizes) : sizes[l] = <<sa.flat[l]>>
           /\ (sa.nested /\ constructed) => sizes = sa.levels

\* two levels of sizes with one level of aspect ratios: __init__ raised
C11_Witness ==
  /\ init_pc = "raised"
  /\ init_args[1].nested /\ init_args[2].nested
  /\ Len(init_args[1].levels) = 2 /\ Len(init_args[2].levels) = 1
  /\ ~constructed

----------------------------------------------------------------------------
(* Properties of the order of the anchors                                   *)

\* the box b moved by dx along x and dy along y
Translated(b, dx, dy) == <<b[1] + dx, b[2] + dy, b[3] + dx, b[4] + dy>>

\* C12: for a level with grid (H, W), stride (sh, sw) and k templates T,
\* the anchor at flat index (y * W + x) * k + t is T[t] moved by
\* (x * sw, y * sh), for all y < H, x < W, t < k, and the anchors of an image
\* are the anchors of the levels one after the other, in level order.
C12_AnchorOrder ==
  /\ \A p \in Procs :
       pc[p] \in {"loop", "cat", "clear"} =>
         LET c == loc[p]
         IN  \A l \in 1..Len(c.over) :
               LET H == c.grid_sizes[l][1]
                   W == c.grid_sizes[l][2]
                   T == generate_anchors(sizes[l], aspect_ratios[l])
                   k == Len(T)
               IN  /\ Len(c.over[l].boxes) = H * W * k
                   /\ \A y \in 0..(H - 1), x \in 0..(W - 1), t \in 0..(k - 1) :
                        c.over[l].boxes[(y * W + x) * k + t + 1] =
                          Translated(T[t + 1], x * c.strides[l][2], y * c.strides[l][1])
  /\ Returned =>
       LET c == ret.call
       IN  \A i \in 1..c.batch :
             \A l \in 1..Len(c.over) :
               \A j \in 1..Len(c.over[l].boxes) :
                 c.out[i].boxes[SumSeq([m \in 1..(l - 1) |-> Len(c.over[m].boxes)]) + j]
                   = c.over[l].boxes[j]

\* a call has returned the anchors of two levels, one of them a grid of
\* two rows and two columns whose strides differ, with two templates
C12_Witness ==
  /\ Returned
  /\ Len(ret.call.over) = 2
  /\ \E l \in 1..2 :
       /\ ret.call.grid_sizes[l] = <<2, 2>>
       /\ ret.call.strides[l][1] # ret.call.strides[l][2]
       /\ Len(sizes[l]) * Len(aspect_ratios[l]) = 2

----------------------------------------------------------------------------
(* Properties of the caps of proposal filtering                             *)

\* the entries of seq that come from level l (from 0)
OfLevel(seq, l) == {e \in Elems(seq) : OriginLevel(e.id) = l}

\* C13: for each image filter_proposals returns at most post_nms_top_n
\* boxes over all levels together (the value of the mode); they are NMS
\* survivors, no survivor left out has a higher score than a returned one,
\* and they come in non-increasing score order, every box with its score;
\* before the NMS min(pre_nms_top_n, anchors of the level) candidates are
\* taken from each level, the best of the level.
C13_CapsAndOrder ==
  /\ \A i \in 1..Len(final) :
       LET out == final[i].out
           nms == final[i].nms
       IN  /\ Len(out) <= post_nms_top_n(training)
           /\ Len(out) = Min(post_nms_top_n(training), Len(nms))
           /\ Elems(out) \subseteq Elems(nms)
           /\ Cardinality(Ids(out)) = Len(out)
           /\ \A k \in 1..(Len(out) - 1) : out[k].score >= out[k + 1].score
           /\ \A e \in Elems(out) : \A x \in Elems(nms) \ Elems(out) : e.score >= x.score
           /\ \A e \in Elems(out) :
                /\ e.box = ClipBox(proposals[i][e.id], ImageShape)
                /\ e.score = Sigmoid(objectness[i][e.id])
  /\ \A i \in 1..Len(selected) :
       \A l \in 1..Len(num_anchors_per_level) :
         LET taken == OfLevel(selected[i], l - 1)
             level == {j \in 1..Len(proposals[i]) : OriginLevel(j) = l - 1}
         IN  /\ Cardinality(taken) =
                  Min(pre_nms_top_n(training), num_anchors_per_level[l])
             /\ Cardinality(taken) <= pre_nms_top_n(training)
             /\ \A e \in taken : \A j \in level \ Ids(selected[i]) :
                  objectness[i][e.id] >= objectness[i][j]

\* an image whose NMS survivors of two levels were more than post_nms_top_n
\* and one of whose levels had more anchors than pre_nms_top_n
C13_Witness ==
  /\ f_pc = "done"
  /\ \E i \in 1..Len(final) :
       /\ Len(final[i].nms) > post_nms_top_n(training)
       /\ Len(final[i].out) = post_nms_top_n(training)
       /\ \E e1, e2 \in Elems(final[i].nms) : OriginLevel(e1.id) # OriginLevel(e2.id)
  /\ \E l \in 1..Len(num_anchors_per_level) :
       num_anchors_per_level[l] > pre_nms_top_n(training)

----------------------------------------------------------------------------
(* Properties of compute_loss                                               *)

\* the positions <<image, anchor>> of the batch with a label in L
Labelled(L) ==
  {at \in UNION {{<<i, a>> : a \in 1..Len(labels[i])} : i \in 1..Len(labels)} :
     labels[at[1]][at[2]] \in L}

\* C14: the localization loss is the sum over the sampled positives only,
\* divided by the number of sampled positives and negatives together, and
\* alpha is the sampled negatives over the same number; with no sampled
\* positive and at least one sampled negative the localization loss is zero
\* and neither division is by zero.
C14_LossNormalisation ==
  (r_pc = "returned" /\ losses = LossKeys) =>
    LET P == loss_terms.pos
        N == loss_terms.neg
    IN  /\ P \subseteq Labelled({1})
        /\ N \subseteq Labelled({0})
        /\ loss_terms.box_loss[1] = SumOver(P)
        /\ loss_terms.box_loss[2] = Cardinality(P) + Cardinality(N)
        /\ loss_terms.alpha = <<Cardinality(N), Cardinality(P) + Cardinality(N)>>
        /\ (P # {}) => loss_terms.box_loss[1] > 0
        /\ (P = {} /\ N # {}) =>
             /\ loss_terms.box_loss[1] = 0
             /\ loss_terms.box_loss[2] > 0
             /\ loss_terms.alpha[2] > 0
             /\ error = ""

\* a batch without any ground-truth box: no sampled positive, a sampled
\* negative, and both losses returned
C14_Witness ==
  /\ r_pc = "returned"
  /\ losses = LossKeys
  /\ loss_terms.pos = {}
  /\ loss_terms.neg # {}
  /\ loss_terms.box_loss = <<0, Cardinality(loss_terms.neg)>>

----------------------------------------------------------------------------
(* Properties of interleaved forward calls                                  *)

\* the cache key of the call of caller p
KeyOf(p) == CacheKey(loc[p].grid_sizes, loc[p].strides, loc[p].device)

\* C15: a forward call can find its key in the cache and fail to read it,
\* because the clear at the end of another call came in between; this takes
\* two calls in flight together: a call that no other call has been in
\* flight with finds the cache empty, fills it and never fails.
C15_FailureNeedsInterleaving ==
  \A p \in Procs :
    /\ pc[p] = "raised" => p \in interleaved
    /\ (pc[p] = "hit" /\ ~CacheHas(_cache, KeyOf(p))) => p \in interleaved
    /\ p \notin interleaved =>
         /\ pc[p] # "hit"
         /\ pc[p] \in {"cached", "miss"} => _cache = EmptyCache
         /\ pc[p] \in {"loop", "cat", "clear"} => CacheHas(_cache, KeyOf(p))

\* a call found its key in the cache, the other call returned and cleared
\* the cache, and the read of the first call raised KeyError
C15_Witness ==
  \E p \in Procs :
    /\ pc[p] = "raised"
    /\ ret.done /\ ret.by # p
    /\ _cache = EmptyCache


----------------------------------------------------------------------------
(* Properties of the flattening of the predictor outputs                    *)

\* the rows one image has for level l: H * W * A
HeadLevelRows(l) == h_in.grids[l][1] * h_in.grids[l][2] * h_in.A

\* the rows one image has for the levels before l
HeadOffset(l) == SumSeq([m \in 1..(l - 1) |-> HeadLevelRows(m)])

\* the anchors the generator of this behaviour makes for level l of the call
HeadLevelAnchors(l) ==
  LevelAnchors(h_in.grids[l], Strides(h_in.image_size, h_in.grids)[l],
               generate_anchors(sizes[l], aspect_ratios[l]))

\* the anchors of one image: the levels the generator has, in level order
HeadImageAnchors ==
  Concat([l \in 1..Min(Len(h_in.grids), Len(sizes)) |-> HeadLevelAnchors(l)])

\* the predictor has as many anchors per location as every level of the
\* call has templates
HeadMatchesTemplates ==
  /\ constructed
  /\ Len(h_in.grids) <= Len(sizes)
  /\ \A l \in 1..Len(h_in.grids) :
       h_in.A = Len(generate_anchors(sizes[l], aspect_ratios[l]))

\* C16: concat_box_prediction_layers puts the score and the four deltas
\* predicted for image n, level l, cell (y, x) and per-location anchor a in
\* row n * Total + offset(l) + (y * W + x) * A + a of box_cls and of
\* box_regression; num_anchors_per_level of forward is H * W * A per level;
\* and when the predictor's anchors per location equal the template count of
\* every level, that row is the position of the anchor of (l, y, x, a) in the
\* image's anchors and num_anchors_per_level[l] is the level's anchor count.
C16_FlatRowsAlignedWithAnchors ==
  LET L     == Len(h_in.grids)
      A     == h_in.A
      Total == HeadOffset(L + 1)
  IN  /\ h_pc \in {"loop", "cat", "done"} =>
           /\ Len(num_anchors_per_level) = L
           /\ \A l \in 1..L :
                /\ num_anchors_per_level[l] = HeadLevelRows(l)
                /\ HeadMatchesTemplates =>
                     num_anchors_per_level[l] = Len(HeadLevelAnchors(l))
      /\ h_pc = "done" =>
           /\ h_out.box_cls.shape = <<h_in.N * Total, 1>>
           /\ h_out.box_regression.shape = <<h_in.N * Total, 4>>
           /\ HeadMatchesTemplates => Len(HeadImageAnchors) = Total
           /\ \A n \in 0..(h_in.N - 1), l \in 1..L :
                LET H == h_in.grids[l][1]
                    W == h_in.grids[l][2]
                    T == generate_anchors(sizes[l], aspect_ratios[l])
                    s == Strides(h_in.image_size, h_in.grids)[l]
                IN  \A y \in 0..(H - 1), x \in 0..(W - 1), a \in 0..(A - 1) :
                      LET pos == HeadOffset(l) + (y * W + x) * A + a
                          row == n * Total + pos
                      IN  /\ At(h_out.box_cls, <<row, 0>>) = <<"cls", l, <<n, a, y, x>> >>
                          /\ \A c \in 0..3 :
                               At(h_out.box_regression, <<row, c>>)
                                 = <<"reg", l, <<n, 4 * a + c, y, x>> >>
                          /\ HeadMatchesTemplates =>
                               HeadImageAnchors[pos + 1]
                                 = Translated(T[a + 1], x * s[2], y * s[1])

\* the outputs of two images over two levels, the first a grid of two rows
\* and one column, were flattened for a predictor of two anchors per
\* location that every level's templates match
C16_Witness ==
  /\ h_pc = "done"
  /\ h_in.N = 2
  /\ h_in.A = 2
  /\ h_in.grids = << <<2, 1>>, <<1, 2>> >>
  /\ HeadMatchesTemplates

====
